---------------------------- MODULE Spec2Model ----------------------------
(***************************************************************************)
(* PatriciaTreeMap / PatriciaTreeSet (src/src/map.rs, src/src/set.rs):     *)
(* a binary trie over unsigned integer keys that splits on the lowest      *)
(* differing bit, with point lookup, insert-with-replace and a stack-based *)
(* left-to-right iterator.                                                 *)
(*                                                                         *)
(* Option<T> is modelled as a sequence of length 0 (None) or 1 (Some(x)).  *)
(* A Node is a record: Leaf [kind, key, value] or Internal [kind,          *)
(* key_prefix, branch_bit, left, right]; Box<Node> is the node itself.     *)
(* A reference to a node held by the iterator is the node's value (the    *)
(* map cannot change while an iterator borrows it).                        *)
(***************************************************************************)
EXTENDS Integers, Sequences, FiniteSets, TLC

\* Width in bits of the modelled key type (u64 in the source).
KeyBits == 3
\* Keys offered to insert/get are 0..MaxKey.
MaxKey == 6
\* Inserts of new keys are offered while len() < MaxSize.
MaxSize == 4
\* next() is offered at most MaxNext times on one iterator.
MaxNext == 6

Keys == 0..MaxKey
Values == {"A", "B"}

VARIABLES
    size,       \* PatriciaTreeMap.size
    root,       \* PatriciaTreeMap.root : Option<Box<Node<V>>>
    iter,       \* the live PatriciaTreeMapIterator, if any : Option<[path, last_was_left]>
    results,    \* what the next() calls on the live iterator returned, in order
    reference,  \* the reference map of the tests (from_keys): key -> Option<V>
    set,        \* PatriciaTreeSet.base : [size, root]
    inserted,   \* the keys passed to PatriciaTreeSet::insert so far
    last        \* the last call and what it returned

vars == <<size, root, iter, results, reference, set, inserted, last>>

None == <<>>
Some(x) == <<x>>

-----------------------------------------------------------------------------
(* u64 arithmetic on KeyBits-wide keys *)

Bit(x, i) == (x \div (2 ^ i)) % 2

RECURSIVE XorFrom(_, _, _)
XorFrom(a, b, i) ==
    IF i = KeyBits THEN 0
    ELSE (IF Bit(a, i) # Bit(b, i) THEN 2 ^ i ELSE 0) + XorFrom(a, b, i + 1)

\* a ^ b
Xor(a, b) == XorFrom(a, b, 0)

RECURSIVE TzFrom(_, _)
TzFrom(x, i) ==
    IF i = KeyBits THEN KeyBits
    ELSE IF Bit(x, i) = 1 THEN i ELSE TzFrom(x, i + 1)

\* Mutant: the index of the highest set bit instead of the lowest.
RECURSIVE HighFrom(_, _)
HighFrom(x, i) ==
    IF i < 0 THEN KeyBits
    ELSE IF Bit(x, i) = 1 THEN i ELSE HighFrom(x, i - 1)

highest_one(x) == HighFrom(x, KeyBits - 1)

\* u64::trailing_zeros: the index of the lowest set bit, the width for 0.
trailing_zeros(x) == TzFrom(x, 0)

\* Mutant: the mask keeps the branch bit too.
get_prefix_wide(key, branch_bit) == key % (2 ^ (branch_bit + 1))

\* (1 << branch_bit) - 1 masks the bits below branch_bit.
get_prefix(key, branch_bit) == key % (2 ^ branch_bit)

\* Mutant: the branch decision inverted.
is_right(key, branch_bit) == Bit(key, branch_bit) = 1

is_left(key, branch_bit) == Bit(key, branch_bit) = 0

-----------------------------------------------------------------------------
(* Nodes *)

Leaf(key, value) == [kind |-> "Leaf", key |-> key, value |-> value]

Internal(key_prefix, branch_bit, left, right) ==
    [kind |-> "Internal", key_prefix |-> key_prefix, branch_bit |-> branch_bit,
     left |-> left, right |-> right]

\* PatriciaTreeMap::new()
NewMap == [size |-> 0, root |-> None]

-----------------------------------------------------------------------------
(* Descent: find_insertion_point / find_insertion_point_mut.  The place of  *)
(* the node the descent stops at is the sequence of child selectors from    *)
(* the root; the shared variant returns the node there, the mutable variant *)
(* lets insert replace the node there.                                      *)

RECURSIVE descent(_, _)
descent(node, key) ==
    IF node.kind = "Leaf" THEN <<>>
    ELSE IF node.key_prefix # get_prefix(key, node.branch_bit) THEN <<>>
    ELSE IF is_left(key, node.branch_bit)
         THEN <<"left">> \o descent(node.left, key)
         ELSE <<"right">> \o descent(node.right, key)

RECURSIVE NodeAt(_, _)
NodeAt(node, place) ==
    IF place = <<>> THEN node
    ELSE IF Head(place) = "left" THEN NodeAt(node.left, Tail(place))
    ELSE NodeAt(node.right, Tail(place))

RECURSIVE ReplaceAt(_, _, _)
ReplaceAt(node, place, new) ==
    IF place = <<>> THEN new
    ELSE IF Head(place) = "left"
         THEN [node EXCEPT !.left = ReplaceAt(node.left, Tail(place), new)]
         ELSE [node EXCEPT !.right = ReplaceAt(node.right, Tail(place), new)]

find_insertion_point(tree, key) ==
    IF tree.root = None THEN None
    ELSE Some(NodeAt(tree.root[1], descent(tree.root[1], key)))

\* Mutant: a landed-on leaf is taken for the key's own leaf.
get_any_leaf(tree, key) ==
    LET n == find_insertion_point(tree, key)
    IN  IF n # None /\ n[1].kind = "Leaf" THEN Some(n[1].value) ELSE None

get(tree, key) ==
    LET n == find_insertion_point(tree, key)
    IN  IF n # None /\ n[1].kind = "Leaf" /\ n[1].key = key
        THEN Some(n[1].value)
        ELSE None

contains(tree, key) == get(tree, key) # None

len(tree) == tree.size

is_empty(tree) == len(tree) = 0

-----------------------------------------------------------------------------
(* Insertion *)

\* Mutant: the new leaf always becomes the left child.
do_insert_left(diff, key, value, node) ==
    LET branch_bit == trailing_zeros(diff)
        key_prefix == get_prefix(key, branch_bit)
    IN  Internal(key_prefix, branch_bit, Leaf(key, value), node)

\* The node that replaces `node`: a new Internal node over the old node and
\* the new leaf.  (The call returns None.)
do_insert(diff, key, value, node) ==
    LET branch_bit == trailing_zeros(diff)
        key_prefix == get_prefix(key, branch_bit)
        leaf == Leaf(key, value)
    IN  IF is_left(key, branch_bit)
        THEN Internal(key_prefix, branch_bit, leaf, node)
        ELSE Internal(key_prefix, branch_bit, node, leaf)

\* Mutant: an equal key keeps its old value.
aux_keep(tree, key, value) ==
    IF tree.root = None
    THEN [root |-> Some(Leaf(key, value)), res |-> None]
    ELSE LET place == descent(tree.root[1], key)
             node == NodeAt(tree.root[1], place)
         IN  IF node.kind = "Leaf"
             THEN IF node.key # key
                  THEN [root |-> Some(ReplaceAt(tree.root[1], place,
                                   do_insert(Xor(node.key, key), key, value, node))),
                        res |-> None]
                  ELSE [root |-> tree.root, res |-> Some(node.value)]
             ELSE [root |-> Some(ReplaceAt(tree.root[1], place,
                              do_insert(Xor(node.key_prefix, key), key, value, node))),
                   res |-> None]

\* Mutant: a landed-on leaf is split without comparing its key.
aux_no_eq(tree, key, value) ==
    IF tree.root = None
    THEN [root |-> Some(Leaf(key, value)), res |-> None]
    ELSE LET place == descent(tree.root[1], key)
             node == NodeAt(tree.root[1], place)
         IN  IF node.kind = "Leaf"
             THEN [root |-> Some(ReplaceAt(tree.root[1], place,
                              do_insert(Xor(node.key, key), key, value, node))),
                   res |-> None]
             ELSE [root |-> Some(ReplaceAt(tree.root[1], place,
                              do_insert(Xor(node.key_prefix, key), key, value, node))),
                   res |-> None]

\* insert's aux: the new root and the returned Option<V>.
aux(tree, key, value) ==
    IF tree.root = None
    THEN [root |-> Some(Leaf(key, value)), res |-> None]
    ELSE LET place == descent(tree.root[1], key)
             node == NodeAt(tree.root[1], place)
         IN  IF node.kind = "Leaf"
             THEN IF node.key # key
                  THEN [root |-> Some(ReplaceAt(tree.root[1], place,
                                   do_insert(Xor(node.key, key), key, value, node))),
                        res |-> None]
                  ELSE [root |-> Some(ReplaceAt(tree.root[1], place,
                                   [node EXCEPT !.value = value])),
                        res |-> Some(node.value)]
             ELSE [root |-> Some(ReplaceAt(tree.root[1], place,
                              do_insert(Xor(node.key_prefix, key), key, value, node))),
                   res |-> None]

\* Mutant: size grows on every call.
insert_count_all(tree, key, value) ==
    LET r == aux(tree, key, value)
    IN  [size |-> tree.size + 1, root |-> r.root, res |-> r.res]

\* PatriciaTreeMap::insert: the map after the call and the returned value.
insert(tree, key, value) ==
    LET r == aux(tree, key, value)
    IN  [size |-> tree.size + (IF r.res = None THEN 1 ELSE 0),
         root |-> r.root, res |-> r.res]

-----------------------------------------------------------------------------
(* PatriciaTreeSet *)

\* Mutant: reports whether the key was already there.
set_insert_was_there(base, key) ==
    LET r == insert(base, key, "unit")
    IN  [base |-> [size |-> r.size, root |-> r.root], res |-> r.res # None]

\* PatriciaTreeSet::insert: the base map after the call and the returned bool.
set_insert(base, key) ==
    LET r == insert(base, key, "unit")
    IN  [base |-> [size |-> r.size, root |-> r.root], res |-> r.res = None]

set_contains(base, key) == contains(base, key)

set_len(base) == len(base)

-----------------------------------------------------------------------------
(* PatriciaTreeMapIterator *)

\* PatriciaTreeMapIterator::new
new_iterator == [path |-> <<>>, last_was_left |-> TRUE]

RECURSIVE leftmost_loop(_, _)
leftmost_loop(it, node) ==
    IF node.kind = "Leaf"
    THEN [it |-> it, res |-> Some(<<node.key, node.value>>)]
    ELSE leftmost_loop([path |-> Append(it.path, node), last_was_left |-> TRUE],
                       node.left)

\* Mutant: the flag is not cleared before the descent.
find_leftmost_keep(it, node) == leftmost_loop(it, node)

\* The iterator after the call and the returned Option<(u64, &V)>.
find_leftmost(it, node) ==
    leftmost_loop([it EXCEPT !.last_was_left = FALSE], node)

\* Mutant: the climb stops at the first parent.
climb_one(path, internal_node) ==
    IF path = <<>>
    THEN [found |-> FALSE, path |-> path, node |-> internal_node]
    ELSE [found |-> TRUE, path |-> SubSeq(path, 1, Len(path) - 1),
          node |-> path[Len(path)]]

\* The loop of next(): pop parents until one is found that internal_node
\* is the left child of, or the path is exhausted.
RECURSIVE climb(_, _)
climb(path, internal_node) ==
    IF path = <<>>
    THEN [found |-> FALSE, path |-> path, node |-> internal_node]
    ELSE LET parent_node == path[Len(path)]
             rest == SubSeq(path, 1, Len(path) - 1)
         IN  IF is_left(internal_node.key_prefix, parent_node.branch_bit)
             THEN [found |-> TRUE, path |-> rest, node |-> parent_node]
             ELSE climb(rest, parent_node)

\* Mutant: a single-leaf map that has produced its leaf stays exhausted.
next_fused(it, tree) ==
    IF it.path = <<>>
    THEN IF tree.root = None THEN [it |-> it, res |-> None]
         ELSE IF it.last_was_left THEN find_leftmost(it, tree.root[1])
         ELSE [it |-> it, res |-> None]
    ELSE LET top == it.path[Len(it.path)]
             rest == SubSeq(it.path, 1, Len(it.path) - 1)
         IN  IF ~it.last_was_left
             THEN LET c == climb(rest, top)
                  IN  IF ~c.found
                      THEN [it |-> [path |-> <<>>, last_was_left |-> FALSE],
                            res |-> None]
                      ELSE find_leftmost([it EXCEPT !.path = Append(c.path, c.node)],
                                         c.node.right)
             ELSE find_leftmost([it EXCEPT !.path = Append(rest, top)], top.right)

\* Mutant: an ancestor whose right subtree is entered is not pushed back.
next_pop(it, tree) ==
    IF it.path = <<>>
    THEN IF tree.root = None THEN [it |-> it, res |-> None]
         ELSE IF it.last_was_left THEN find_leftmost(it, tree.root[1])
         ELSE [it |-> [it EXCEPT !.last_was_left = TRUE], res |-> None]
    ELSE LET top == it.path[Len(it.path)]
             rest == SubSeq(it.path, 1, Len(it.path) - 1)
         IN  IF ~it.last_was_left
             THEN LET c == climb(rest, top)
                  IN  IF ~c.found
                      THEN [it |-> [path |-> <<>>, last_was_left |-> TRUE],
                            res |-> None]
                      ELSE find_leftmost([it EXCEPT !.path = c.path], c.node.right)
             ELSE find_leftmost([it EXCEPT !.path = rest], top.right)

\* Iterator::next: the iterator after the call and the returned item.
next(it, tree) ==
    IF it.path = <<>>
    THEN IF tree.root = None THEN [it |-> it, res |-> None]
         ELSE IF it.last_was_left THEN find_leftmost(it, tree.root[1])
         ELSE [it |-> [it EXCEPT !.last_was_left = TRUE], res |-> None]
    ELSE LET top == it.path[Len(it.path)]
             rest == SubSeq(it.path, 1, Len(it.path) - 1)
         IN  IF ~it.last_was_left
             THEN LET c == climb(rest, top)
                  IN  IF ~c.found
                      THEN [it |-> [path |-> <<>>, last_was_left |-> TRUE],
                            res |-> None]
                      ELSE find_leftmost([it EXCEPT !.path = Append(c.path, c.node)],
                                         c.node.right)
             ELSE find_leftmost([it EXCEPT !.path = Append(rest, top)], top.right)

-----------------------------------------------------------------------------
(* The state machine *)

Map == [size |-> size, root |-> root]

Call(op, key, value, ret) ==
    [op |-> op, key |-> key, value |-> value, ret |-> ret,
     twice |-> last.op = op /\ last.key = key /\ last.value = value]

Init ==
    /\ size = NewMap.size
    /\ root = NewMap.root
    /\ iter = None
    /\ results = <<>>
    /\ reference = [k \in Keys |-> None]
    /\ set = NewMap
    /\ inserted = {}
    /\ last = [op |-> "new", key |-> 0, value |-> "unit", ret |-> None,
               twice |-> FALSE]

\* map.insert(key, value); no iterator borrows the map.
Insert(key, value) ==
    /\ iter = None
    /\ contains(Map, key) \/ size < MaxSize
    /\ LET r == insert(Map, key, value)
       IN  /\ size' = r.size
           /\ root' = r.root
           /\ last' = Call("insert", key, value, r.res)
    /\ reference' = [reference EXCEPT ![key] = Some(value)]
    /\ UNCHANGED <<iter, results, set, inserted>>

\* map.iter()
Iter ==
    /\ iter = None
    /\ iter' = Some(new_iterator)
    /\ results' = <<>>
    /\ last' = Call("iter", 0, "unit", None)
    /\ UNCHANGED <<size, root, reference, set, inserted>>

\* iter.next()
IterNext ==
    /\ iter # None
    /\ Len(results) < MaxNext
    /\ LET r == next(iter[1], Map)
       IN  /\ iter' = Some(r.it)
           /\ results' = Append(results, r.res)
           /\ last' = Call("next", 0, "unit", r.res)
    /\ UNCHANGED <<size, root, reference, set, inserted>>

\* The iterator goes out of scope.
Drop ==
    /\ iter # None
    /\ iter' = None
    /\ results' = <<>>
    /\ last' = Call("drop", 0, "unit", None)
    /\ UNCHANGED <<size, root, reference, set, inserted>>

\* set.insert(key)
SetInsert(key) ==
    /\ set_contains(set, key) \/ set_len(set) < MaxSize
    /\ LET r == set_insert(set, key)
       IN  /\ set' = r.base
           /\ last' = Call("set_insert", key, "unit", r.res)
    /\ inserted' = inserted \cup {key}
    /\ UNCHANGED <<size, root, iter, results, reference>>

Next ==
    \/ \E key \in Keys, value \in Values : Insert(key, value)
    \/ Iter
    \/ IterNext
    \/ Drop

Spec == Init /\ [][Next]_vars

NextSet == \E key \in Keys : SetInsert(key)

SpecSet == Init /\ [][NextSet]_vars

-----------------------------------------------------------------------------
(* Helpers of the properties *)

Present == {k \in Keys : contains(Map, k)}

KeyOf(item) == item[1][1]

ValueOf(item) == item[1][2]

\* The number of items the live iterator yielded before its first None.
FirstRun ==
    LET nones == {i \in 1..Len(results) : results[i] = None}
    IN  IF nones = {} THEN Len(results)
        ELSE (CHOOSE i \in nones : \A j \in nones : i <= j) - 1

\* results[i..j] are all items of one traversal (no None among them).
OneRun(i, j) == \A m \in i..j : results[m] # None

RECURSIVE RevFrom(_, _)
RevFrom(x, i) ==
    IF i = KeyBits THEN 0
    ELSE Bit(x, i) * (2 ^ (KeyBits - 1 - i)) + RevFrom(x, i + 1)

\* The key read with its least significant bit first.
BitRev(x) == RevFrom(x, 0)

\* What a fresh iterator over tree yields up to its first None (at most
\* fuel items).
RECURSIVE Collect(_, _, _)
Collect(it, tree, fuel) ==
    LET r == next(it, tree)
    IN  IF r.res = None \/ fuel = 0 THEN <<>>
        ELSE <<r.res[1]>> \o Collect(r.it, tree, fuel - 1)

IterSeq(tree) == Collect(new_iterator, tree, tree.size + 1)

\* The map built by inserting the present keys, with their present values,
\* in ascending (up = TRUE) or descending numeric order.
RECURSIVE BuildFrom(_, _, _)
BuildFrom(tree, k, up) ==
    IF k < 0 \/ k > MaxKey THEN tree
    ELSE LET v == get(Map, k)
             r == IF v # None THEN insert(tree, k, v[1]) ELSE tree
         IN  BuildFrom([size |-> r.size, root |-> r.root],
                       IF up THEN k + 1 ELSE k - 1, up)

BuiltAscending == BuildFrom(NewMap, 0, TRUE)

BuiltDescending == BuildFrom(NewMap, MaxKey, FALSE)

-----------------------------------------------------------------------------
(* Properties *)

\* C1: after any sequence of inserts, len() is the number of distinct keys
\* inserted and get(k) is the value of the last insert of k, for every
\* inserted key k (the map agrees with the reference map).
C1_AgreesWithReference ==
    /\ len(Map) = Cardinality({k \in Keys : reference[k] # None})
    /\ \A k \in Keys : reference[k] # None => get(Map, k) = reference[k]

\* A map of three keys, one holding "B", whose last insert overwrote a value.
C1_Witness ==
    /\ size >= 3
    /\ last.op = "insert" /\ last.ret # None /\ last.ret # Some(last.value)
    /\ get(Map, last.key) = Some(last.value)

\* C2: insert(k, v) returns Some(previous value) and leaves len() unchanged
\* when k is present, and returns None and grows len() by one when it is not.
C2_InsertReturn ==
    [][last'.op = "insert" =>
         IF contains(Map, last'.key)
         THEN last'.ret = get(Map, last'.key) /\ size' = size
         ELSE last'.ret = None /\ size' = size + 1]_vars

\* Both cases have happened: the last insert replaced a value in a map that
\* grew to three keys.
C2_Witness ==
    /\ last.op = "insert" /\ last.ret # None
    /\ size = 3

\* C3: get(k) is None and contains(k) is false for every key never inserted,
\* wherever the descent ends.
C3_AbsentKeys ==
    \A k \in Keys : reference[k] = None =>
        get(Map, k) = None /\ ~contains(Map, k)

\* Two never-inserted keys: the descent of one ends on a leaf with another
\* key, the descent of the other on an Internal node whose prefix disagrees.
C3_Witness ==
    \E k1, k2 \in Keys :
        /\ reference[k1] = None /\ reference[k2] = None
        /\ root # None
        /\ find_insertion_point(Map, k1)[1].kind = "Leaf"
        /\ find_insertion_point(Map, k2)[1].kind = "Internal"

\* C4: a fresh iterator yields exactly len() pairs before its first None,
\* each present key once, each with the value the map holds for it.
C4_IterYieldsContents ==
    iter # None =>
        /\ FirstRun <= len(Map)
        /\ Len(results) > FirstRun => FirstRun = len(Map)
        /\ \A i, j \in 1..FirstRun : i # j => KeyOf(results[i]) # KeyOf(results[j])
        /\ \A i \in 1..FirstRun :
               get(Map, KeyOf(results[i])) = Some(ValueOf(results[i]))

\* A full traversal of a three-key map has ended with None.
C4_Witness ==
    /\ iter # None /\ size >= 3
    /\ Len(results) = size + 1
    /\ results[size + 1] = None

\* C5 as stated: successive items have strictly ascending numeric keys.
C5_NumericAscending ==
    \A i \in 1..(Len(results) - 1) :
        OneRun(i, i + 1) => KeyOf(results[i]) < KeyOf(results[i + 1])

\* C5, amended: successive items are strictly ascending in the order of the
\* keys read least significant bit first.
C5_BitReversedAscending ==
    \A i \in 1..(Len(results) - 1) :
        OneRun(i, i + 1) =>
            BitRev(KeyOf(results[i])) < BitRev(KeyOf(results[i + 1]))

\* The iterator yielded a numerically larger key before a smaller one.
C5_Witness ==
    \E i \in 1..(Len(results) - 1) :
        OneRun(i, i + 1) /\ KeyOf(results[i]) > KeyOf(results[i + 1])

\* C6: when a is yielded before b in a traversal, a has 0 and b has 1 at the
\* lowest bit where they differ; the keys 1, 3, 2 are yielded as 2, 1, 3.
C6_LowestBitOrder ==
    /\ \A i, j \in 1..Len(results) :
           (i < j /\ OneRun(i, j)) =>
               LET a == KeyOf(results[i])
                   b == KeyOf(results[j])
                   d == trailing_zeros(Xor(a, b))
               IN  a # b /\ Bit(a, d) = 0 /\ Bit(b, d) = 1
    /\ (Present = {1, 2, 3} /\ FirstRun = 3) =>
           <<KeyOf(results[1]), KeyOf(results[2]), KeyOf(results[3])>> = <<2, 1, 3>>

\* The map of the keys 1, 3, 2 has been traversed.
C6_Witness ==
    /\ Present = {1, 2, 3}
    /\ FirstRun = 3 /\ Len(results) > 3

\* C7 as stated: once next() returned None, every later next() returns None.
C7_StaysDone ==
    \A i, j \in 1..Len(results) :
        (i < j /\ results[i] = None) => results[j] = None

\* C7, amended: a next() that returns None leaves the iterator as new (empty
\* path, last_was_left = TRUE), and the next() after it returns what the
\* first next() returned: None for the empty map, the first pair otherwise.
C7_RestartsAfterDone ==
    /\ (iter # None /\ Len(results) > 0 /\ results[Len(results)] = None) =>
           iter[1] = new_iterator
    /\ \A i \in 1..(Len(results) - 1) :
           results[i] = None => results[i + 1] = results[1]

\* An iterator over a non-empty map yielded an item after it returned None.
C7_Witness ==
    \E i \in 1..(Len(results) - 1) :
        results[i] = None /\ results[i + 1] # None

\* C8: the set agrees with a reference set: insert(k) returns true iff k was
\* not yet inserted, contains(k) iff k has been inserted, len() is the number
\* of distinct keys inserted.
C8_SetAgrees ==
    /\ [](/\ \A k \in Keys : set_contains(set, k) <=> k \in inserted
          /\ set_len(set) = Cardinality(inserted))
    /\ [][last'.op = "set_insert" =>
             last'.ret = (last'.key \notin inserted)]_vars

\* insert(5) returned true, then false; contains(5), and others are there.
C8_Witness ==
    /\ last.op = "set_insert" /\ last.key = 5 /\ last.ret = FALSE
    /\ set_contains(set, 5) /\ set_len(set) >= 2

\* C9: the sequence a fresh iterator yields depends only on the contents:
\* the map, whatever order its keys came in, yields what the maps built from
\* the same pairs in ascending and in descending key order yield.
C9_OrderIndependent ==
    iter = None =>
        LET seq == IterSeq(Map)
        IN  /\ seq = IterSeq(BuiltAscending)
            /\ seq = IterSeq(BuiltDescending)

\* Three keys were inserted in neither ascending nor descending order.
C9_Witness ==
    /\ size = 3
    /\ last.op = "insert" /\ last.ret = None
    /\ \E a, b \in Present : a < last.key /\ last.key < b

\* C10: insert(k, v) right after insert(k, v) leaves root and size as they
\* were and returns Some(v).
C10_Idempotent ==
    [][(last'.op = "insert" /\ last'.twice) =>
           /\ root' = root
           /\ size' = size
           /\ last'.ret = Some(last'.value)]_vars

\* The same pair was inserted twice in a row into a map of three keys.
C10_Witness ==
    /\ last.op = "insert" /\ last.twice
    /\ size >= 3

-----------------------------------------------------------------------------
(* Helpers of the structural properties *)

\* The keys of the leaves under node.
RECURSIVE KeysOf(_)
KeysOf(node) ==
    IF node.kind = "Leaf" THEN {node.key}
    ELSE KeysOf(node.left) \cup KeysOf(node.right)

\* The Internal nodes under (and including) node.
RECURSIVE Internals(_)
Internals(node) ==
    IF node.kind = "Leaf" THEN {}
    ELSE {node} \cup Internals(node.left) \cup Internals(node.right)

\* The number of Leaf nodes under node.
RECURSIVE LeafCount(_)
LeafCount(node) ==
    IF node.kind = "Leaf" THEN 1
    ELSE LeafCount(node.left) + LeafCount(node.right)

AllInternals == IF root = None THEN {} ELSE Internals(root[1])

\* The Internal nodes strictly below n.
Below(n) == Internals(n.left) \cup Internals(n.right)

\* C11: for every Internal node with branch_bit b, the keys under left have
\* bit b = 0, the keys under right have bit b = 1, and every key under the
\* node has its low b bits equal to key_prefix.
C11_BitSplit ==
    \A n \in AllInternals :
        /\ \A k \in KeysOf(n.left) : Bit(k, n.branch_bit) = 0
        /\ \A k \in KeysOf(n.right) : Bit(k, n.branch_bit) = 1
        /\ \A k \in KeysOf(n) : k % (2 ^ n.branch_bit) = n.key_prefix

\* A four-key map with an Internal node below the root whose key_prefix is
\* not 0 and which has keys on both sides.
C11_Witness ==
    /\ size = 4
    /\ \E n \in AllInternals :
           /\ n # root[1]
           /\ n.key_prefix # 0
           /\ n.branch_bit >= 1

\* C12: size is the number of Leaf nodes reachable from root, and root is
\* None exactly when size is 0 (is_empty() iff the tree has no node).
C12_SizeIsLeafCount ==
    /\ size = (IF root = None THEN 0 ELSE LeafCount(root[1]))
    /\ (root = None) <=> (size = 0)
    /\ is_empty(Map) <=> (root = None)

\* Four leaves after an insert that replaced a value.
C12_Witness ==
    /\ size = 4 /\ root # None /\ LeafCount(root[1]) = 4
    /\ last.op = "insert" /\ last.ret # None

\* C13 as stated: on a downward path no two Internal nodes test the same
\* bit and the branch_bit values decrease from the root down.
C13_Decreasing ==
    \A n \in AllInternals : \A m \in Below(n) :
        m.branch_bit # n.branch_bit /\ m.branch_bit <= n.branch_bit

\* C13, amended: on a downward path no two Internal nodes test the same bit
\* and the branch_bit values strictly increase from the root down.
C13_Increasing ==
    \A n \in AllInternals : \A m \in Below(n) :
        m.branch_bit # n.branch_bit /\ m.branch_bit > n.branch_bit

\* A downward path of three Internal nodes.
C13_Witness ==
    \E n \in AllInternals : \E m \in Below(n) : Below(m) # {}

-----------------------------------------------------------------------------
(* Helpers of the splice properties *)

\* The lowest bit position at which a and b differ (a # b).
LowestDiff(a, b) ==
    CHOOSE i \in 0..(KeyBits - 1) :
        Bit(a, i) # Bit(b, i) /\ \A j \in 0..(i - 1) : Bit(a, j) = Bit(b, j)

\* The node the descent for key lands on in the map as it is (root # None).
Landed(key) == find_insertion_point(Map, key)[1]

\* The leaf of the last inserted pair.
LastLeaf == Leaf(last.key, last.value)

\* C14: an insert that lands on a Leaf with another key replaces that Leaf by
\* one Internal node whose branch_bit is the lowest differing bit of the two
\* keys, whose key_prefix is the low branch_bit bits of the new key, with the
\* new Leaf on the left iff that bit of the new key is 0 and the old Leaf on
\* the other side; no other node changes.
C14_LeafSplit ==
    [][(/\ last'.op = "insert"
        /\ root # None
        /\ Landed(last'.key).kind = "Leaf"
        /\ Landed(last'.key).key # last'.key) =>
           LET key == last'.key
               old == Landed(key)
               place == descent(root[1], key)
               b == LowestDiff(old.key, key)
               new == NodeAt(root'[1], place)
               leaf == Leaf(key, last'.value)
           IN  /\ new.kind = "Internal"
               /\ new.branch_bit = b
               /\ new.key_prefix = key % (2 ^ b)
               /\ IF Bit(key, b) = 0
                  THEN new.left = leaf /\ new.right = old
                  ELSE new.left = old /\ new.right = leaf
               /\ ReplaceAt(root'[1], place, old) = root[1]]_vars

\* The last insert split a Leaf below the root whose key differs from the
\* new key in more than one bit (lowest and highest differing bit differ).
C14_Witness ==
    /\ last.op = "insert" /\ last.ret = None /\ size >= 3
    /\ \E n \in AllInternals :
           /\ n # root[1]
           /\ \/ n.left = LastLeaf /\ n.right.kind = "Leaf"
                 /\ Xor(n.right.key, last.key) \notin {2 ^ i : i \in 0..KeyBits}
              \/ n.right = LastLeaf /\ n.left.kind = "Leaf"
                 /\ Xor(n.left.key, last.key) \notin {2 ^ i : i \in 0..KeyBits}

\* C15: an insert that lands on an Internal node N (whose key_prefix
\* disagrees with the key) uses as branch bit the trailing zeros of
\* N.key_prefix XOR the whole key, which is the lowest set bit of
\* N.key_prefix XOR get_prefix(key, N.branch_bit); the new Internal node
\* takes N's place with N and the new Leaf as children, the new Leaf on the
\* left iff that bit of the key is 0.
C15_InternalSplit ==
    [][(/\ last'.op = "insert"
        /\ root # None
        /\ Landed(last'.key).kind = "Internal") =>
           LET key == last'.key
               N == Landed(key)
               place == descent(root[1], key)
               b == LowestDiff(N.key_prefix, get_prefix(key, N.branch_bit))
               new == NodeAt(root'[1], place)
               leaf == Leaf(key, last'.value)
           IN  /\ trailing_zeros(Xor(N.key_prefix, key)) = b
               /\ new.kind = "Internal"
               /\ new.branch_bit = b
               /\ IF Bit(key, b) = 0
                  THEN new.left = leaf /\ new.right = N
                  ELSE new.left = N /\ new.right = leaf
               /\ ReplaceAt(root'[1], place, N) = root[1]]_vars

\* The last insert spliced a node above an Internal node N, and the key has
\* set bits at or above N.branch_bit (the whole key and its prefix differ).
C15_Witness ==
    /\ last.op = "insert" /\ last.ret = None
    /\ \E n \in AllInternals :
           \/ n.left = LastLeaf /\ n.right.kind = "Internal"
              /\ last.key >= 2 ^ n.right.branch_bit
           \/ n.right = LastLeaf /\ n.left.kind = "Internal"
              /\ last.key >= 2 ^ n.left.branch_bit

\* The diff insert passes to do_insert for key in the map as it is (the
\* descent landed on a Leaf with another key or on an Internal node).
DiffOf(key) ==
    IF Landed(key).kind = "Leaf" THEN Xor(Landed(key).key, key)
    ELSE Xor(Landed(key).key_prefix, key)

\* C16: every diff passed to do_insert is non-zero, so every branch_bit is
\* below the key width (KeyBits here, 64 in the source) and the shifts
\* 1 << branch_bit of get_prefix and is_left never reach the width.
C16_ShiftInRange ==
    /\ [](\A n \in AllInternals : n.branch_bit \in 0..(KeyBits - 1))
    /\ [][(/\ last'.op = "insert"
           /\ root # None
           /\ ~contains(Map, last'.key)) =>
              /\ DiffOf(last'.key) # 0
              /\ trailing_zeros(DiffOf(last'.key)) \in 0..(KeyBits - 1)]_vars

\* A node splits on the highest bit of the key type, and the last insert
\* went through do_insert.
C16_Witness ==
    /\ last.op = "insert" /\ last.ret = None /\ size >= 2
    /\ \E n \in AllInternals : n.branch_bit = KeyBits - 1

-----------------------------------------------------------------------------
(* Helpers of the iterator-state properties *)

\* The last next() on the live iterator yielded a pair.
Yielded == iter # None /\ Len(results) > 0 /\ results[Len(results)] # None

YieldedKey == KeyOf(results[Len(results)])

IsLeafOf(node, key) == node.kind = "Leaf" /\ node.key = key

\* The Internal nodes from node down to the parent of the Leaf holding key.
RECURSIVE Ancestors(_, _)
Ancestors(node, key) ==
    IF node.kind = "Leaf" THEN <<>>
    ELSE <<node>> \o (IF key \in KeysOf(node.left)
                      THEN Ancestors(node.left, key)
                      ELSE Ancestors(node.right, key))

\* C17: whenever next() is entered with an empty path, a non-empty root and
\* last_was_left = FALSE, len() is 1 (the debug assertion holds).
C17_AssertionHolds ==
    (/\ iter # None
     /\ iter[1].path = <<>>
     /\ root # None
     /\ ~iter[1].last_was_left) => len(Map) = 1

\* The iterator of a single-leaf map has produced its leaf: the next call
\* reaches the assertion.
C17_Witness ==
    /\ iter # None /\ root # None
    /\ iter[1].path = <<>> /\ ~iter[1].last_was_left
    /\ Len(results) = 1 /\ results[1] # None

\* C18: after a next() that yields a pair, last_was_left is TRUE exactly when
\* the yielded Leaf is the left child of the node on top of path, and FALSE
\* when it is a right child or the root itself.
C18_FlagMeansLeftChild ==
    Yielded =>
        LET it == iter[1]
        IN  IF it.path = <<>>
            THEN ~it.last_was_left /\ IsLeafOf(root[1], YieldedKey)
            ELSE LET top == it.path[Len(it.path)]
                 IN  /\ it.last_was_left <=> IsLeafOf(top.left, YieldedKey)
                     /\ ~it.last_was_left <=> IsLeafOf(top.right, YieldedKey)

\* A right child below the root was yielded right after a left child.
C18_Witness ==
    /\ Yielded /\ Len(iter[1].path) >= 2
    /\ ~iter[1].last_was_left
    /\ Len(results) >= 2 /\ results[Len(results) - 1] # None

\* C19: after a next() that yields a pair, path is the chain of the Internal
\* ancestors of the yielded Leaf from the root to the Leaf's parent, the
\* ancestors left through their right child included; its length is at most
\* the key width.
C19_PathIsAncestors ==
    Yielded =>
        /\ iter[1].path = Ancestors(root[1], YieldedKey)
        /\ Len(iter[1].path) <= KeyBits

\* The yielded Leaf has an ancestor on path that was left through its right
\* child, below the root.
C19_Witness ==
    /\ Yielded /\ Len(iter[1].path) >= 3
    /\ \E i \in 2..(Len(iter[1].path) - 1) :
           iter[1].path[i + 1] = iter[1].path[i].right

=============================================================================
